---- MODULE Spec2Model ----
(***************************************************************************)
(* Recipe API (app/recipe): the per-user store of recipes, tags and        *)
(* ingredients, the reconciliation of embedded tag / ingredient            *)
(* descriptors on recipe create and update (serializers.py) and the        *)
(* owner-scoped, filtered list queries (views.py).                         *)
(*                                                                         *)
(* Requests are handled one at a time.  A handler action runs while no     *)
(* response is outstanding, applies the whole handler to the store and     *)
(* leaves the request together with its status code in `last`; Deliver     *)
(* hands the response back to the client.  The project settings are not    *)
(* part of the sources; the store runs in Django's default autocommit      *)
(* mode, so the writes a handler made before an exception stay.            *)
(*                                                                         *)
(* Spec handles the requests one at a time.  SpecFields does the same for  *)
(* the recipe endpoints with payloads that tell the scalar columns apart,  *)
(* and SpecRace runs two recipe creates side by side, one store statement  *)
(* at a time.                                                              *)
(***************************************************************************)
EXTENDS Integers, Sequences, FiniteSets, TLC

\* ---------------------------------------------------------------- bounds
MaxTags == 2          \* tag rows ever created
MaxIngredients == 2   \* ingredient rows ever created
MaxRecipes == 3       \* recipe rows ever created
MaxRows == 4          \* rows ever created in the three tables together
MaxFieldRecipes == 2  \* recipe rows ever created under SpecFields

Users == {1, 2}
Anonymous == 0        \* a client that sends no token
Clients == Users \cup {Anonymous}
Names == {"a", "b"}

\* ------------------------------------------------------- optional values
\* A key of a payload (or a query parameter) is absent or carries a value.
None == {}
Some(x) == {x}
Get(o) == CHOOSE x \in o : TRUE
Opt(S) == {None} \cup {Some(x) : x \in S}

Range(q) == {q[i] : i \in DOMAIN q}

\* ------------------------------------------------------------------ state
VARIABLES
    tags,          \* Tag rows: id -> [user, name]
    ingredients,   \* Ingredient rows: id -> [user, name]
    recipes,       \* Recipe rows: id -> [user, title, link, tags, ingredients]
    nextId,        \* next primary key of each table
    last,          \* the request just handled and its status, or Idle
    prev,          \* while a create is in `last`: what the request delivered
                   \* just before it created, if that was a successful create
    writers        \* recipe creates that run side by side, each with its
                   \* position in RecipeSerializer.create: writer ->
                   \* [pc, user, name, rid, found]

vars == <<tags, ingredients, recipes, nextId, last, prev, writers>>

\* The store as one value, handed to and returned by the handlers.
Store == [tags |-> tags, ingredients |-> ingredients, recipes |-> recipes,
          nextId |-> nextId]

\* ------------------------------------------------------------- the models
\* core.models is not among the sources.  Section 3 of the specification
\* gives Tag and Ingredient a name and an owner and states no uniqueness
\* constraint on (owner, name): the store accepts a second row with the
\* same owner and name.
UniqueOwnerName == FALSE

\* Variant of Matches: the lookup is by name alone.
MatchesByName(rows, u, n) == {i \in DOMAIN rows : rows[i].name = n}

\* The rows get_or_create(user=u, name=n) looks at
Matches(rows, u, n) == {i \in DOMAIN rows : rows[i].user = u /\ rows[i].name = n}

\* Variant of GetOrCreate: a row is created whether or not one matches.
GetOrCreateNoLookup(rows, next, u, n) ==
    [ok |-> TRUE, rows |-> rows @@ (next :> [user |-> u, name |-> n]),
     next |-> next + 1, id |-> next]

\* QuerySet.get_or_create(user=u, name=n): the one matching row, a new row
\* when none matches, MultipleObjectsReturned when several match.
GetOrCreate(rows, next, u, n) ==
    LET m == Matches(rows, u, n)
    IN IF Cardinality(m) > 1
       THEN [ok |-> FALSE, rows |-> rows, next |-> next, id |-> 0]
       ELSE IF m = {}
       THEN [ok |-> TRUE, rows |-> rows @@ (next :> [user |-> u, name |-> n]),
             next |-> next + 1, id |-> next]
       ELSE [ok |-> TRUE, rows |-> rows, next |-> next, id |-> Get(m)]

\* ------------------------------------------------------- RecipeSerializer
\* Variant of GetOrCreateTags: Tag.objects.create for every descriptor.
RECURSIVE CreateTags(_, _, _, _)
CreateTags(s, u, descs, rid) ==
    IF descs = <<>> THEN [s |-> s, ok |-> TRUE]
    ELSE CreateTags(
            [s EXCEPT !.tags = @ @@ (s.nextId.tag :> [user |-> u, name |-> Head(descs)]),
                      !.nextId.tag = @ + 1,
                      !.recipes[rid].tags = @ \cup {s.nextId.tag}],
            u, Tail(descs), rid)

\* RecipeSerializer._get_or_create_tags: each descriptor in turn is looked
\* up or created under the requesting user and added to recipe.tags.
RECURSIVE GetOrCreateTags(_, _, _, _)
GetOrCreateTags(s, u, descs, rid) ==
    IF descs = <<>> THEN [s |-> s, ok |-> TRUE]
    ELSE LET g == GetOrCreate(s.tags, s.nextId.tag, u, Head(descs))
         IN IF ~g.ok THEN [s |-> s, ok |-> FALSE]
            ELSE GetOrCreateTags(
                    [s EXCEPT !.tags = g.rows, !.nextId.tag = g.next,
                              !.recipes[rid].tags = @ \cup {g.id}],
                    u, Tail(descs), rid)

\* RecipeSerializer._get_or_create_ingredients
RECURSIVE GetOrCreateIngredients(_, _, _, _)
GetOrCreateIngredients(s, u, descs, rid) ==
    IF descs = <<>> THEN [s |-> s, ok |-> TRUE]
    ELSE LET g == GetOrCreate(s.ingredients, s.nextId.ingredient, u, Head(descs))
         IN IF ~g.ok THEN [s |-> s, ok |-> FALSE]
            ELSE GetOrCreateIngredients(
                    [s EXCEPT !.ingredients = g.rows, !.nextId.ingredient = g.next,
                              !.recipes[rid].ingredients = @ \cup {g.id}],
                    u, Tail(descs), rid)

\* The writable keys a recipe payload is validated against
\* (RecipeSerializer.Meta.fields without the read-only id).  title stands
\* for the required scalar columns (title, time_minutes, price), link for
\* the optional one; they pass through the same validation and the same
\* setattr loop.  A link that was never set is None, the column's default.
RecipeFields == {"title", "link", "tags", "ingredients"}

\* A payload: every key is absent (None) or present (Some(value)); a
\* descriptor is Some(name), or None when its name is missing.
NoData == [title |-> None, link |-> None, tags |-> None,
           ingredients |-> None, user |-> None, name |-> None,
           q_tags |-> None, q_ingredients |-> None, assigned_only |-> None]

\* The name column of Tag and Ingredient (core.models, not among the
\* sources): section 4.1 of the specification makes a descriptor minimally
\* {name: string} and a missing name a validation failure, so the column
\* has no default and may not be blank.
NameRequired == TRUE

\* Variant of RecipeValid: only the first descriptor of a list is checked.
RecipeValidFirstDescriptor(data, partial) ==
    /\ partial \/ data.title # None
    /\ (data.tags # None /\ Get(data.tags) # <<>>) => Head(Get(data.tags)) # None
    /\ (data.ingredients # None /\ Get(data.ingredients) # <<>>) =>
          Head(Get(data.ingredients)) # None

\* serializer.is_valid(): required scalars on a non-partial write, every
\* descriptor needs a name.
RecipeValid(data, partial) ==
    /\ partial \/ data.title # None
    /\ (NameRequired /\ data.tags # None) =>
          \A i \in DOMAIN Get(data.tags) : Get(data.tags)[i] # None
    /\ (NameRequired /\ data.ingredients # None) =>
          \A i \in DOMAIN Get(data.ingredients) : Get(data.ingredients)[i] # None

\* The names a descriptor list carries, in order
DescNames(list) ==
    LET named == SelectSeq(list, LAMBDA d : d # None)
    IN [i \in DOMAIN named |-> Get(named[i])]

\* Variant of Validated: the user key of the payload is kept.
ValidatedWithUser(data) ==
    [title |-> data.title,
     link |-> data.link,
     tags |-> IF data.tags # None THEN Some(DescNames(Get(data.tags))) ELSE None,
     ingredients |-> IF data.ingredients # None
                     THEN Some(DescNames(Get(data.ingredients))) ELSE None,
     user |-> data.user]

\* serializer.validated_data: the keys of Meta.fields, descriptors as names.
Validated(data) ==
    [title |-> IF "title" \in RecipeFields THEN data.title ELSE None,
     link |-> IF "link" \in RecipeFields THEN data.link ELSE None,
     tags |-> IF "tags" \in RecipeFields /\ data.tags # None
              THEN Some(DescNames(Get(data.tags))) ELSE None,
     ingredients |-> IF "ingredients" \in RecipeFields /\ data.ingredients # None
                     THEN Some(DescNames(Get(data.ingredients))) ELSE None,
     user |-> IF "user" \in RecipeFields THEN data.user ELSE None]

\* Variant of Create: only the required columns are written.
CreateRequiredOnly(s, u, v) ==
    LET rid == s.nextId.recipe
        tg == IF v.tags = None THEN <<>> ELSE Get(v.tags)
        ig == IF v.ingredients = None THEN <<>> ELSE Get(v.ingredients)
        row == [user |-> u, title |-> Get(v.title), link |-> None,
                tags |-> {}, ingredients |-> {}]
        s1 == [s EXCEPT !.recipes = @ @@ (rid :> row), !.nextId.recipe = @ + 1]
        t == GetOrCreateTags(s1, u, tg, rid)
        i == IF t.ok THEN GetOrCreateIngredients(t.s, u, ig, rid) ELSE t
    IN [s |-> i.s, ok |-> i.ok]

\* RecipeSerializer.create, called by perform_create with user=request.user
Create(s, u, v) ==
    LET rid == s.nextId.recipe
        tg == IF v.tags = None THEN <<>> ELSE Get(v.tags)
        ig == IF v.ingredients = None THEN <<>> ELSE Get(v.ingredients)
        row == [user |-> u, title |-> Get(v.title), link |-> v.link,
                tags |-> {}, ingredients |-> {}]
        s1 == [s EXCEPT !.recipes = @ @@ (rid :> row), !.nextId.recipe = @ + 1]
        t == GetOrCreateTags(s1, u, tg, rid)
        i == IF t.ok THEN GetOrCreateIngredients(t.s, u, ig, rid) ELSE t
    IN [s |-> i.s, ok |-> i.ok]

\* Variant of SetAttrs: a column the payload leaves out is reset to its
\* default.
SetAttrsReset(s, rid, v) ==
    [s EXCEPT !.recipes[rid] =
        [@ EXCEPT !.title = IF v.title # None THEN Get(v.title) ELSE @,
                  !.link = v.link,
                  !.user = IF v.user # None THEN Get(v.user) ELSE @]]

\* The scalar part of update: setattr for every remaining key, then save()
SetAttrs(s, rid, v) ==
    [s EXCEPT !.recipes[rid] =
        [@ EXCEPT !.title = IF v.title # None THEN Get(v.title) ELSE @,
                  !.link = IF v.link # None THEN v.link ELSE @,
                  !.user = IF v.user # None THEN Get(v.user) ELSE @]]

\* Variant of Update: the relations are not cleared before reconciling.
UpdateMerge(s, u, rid, v) ==
    LET t == IF v.tags # None THEN GetOrCreateTags(s, u, Get(v.tags), rid)
             ELSE [s |-> s, ok |-> TRUE]
        i == IF t.ok /\ v.ingredients # None
             THEN GetOrCreateIngredients(t.s, u, Get(v.ingredients), rid)
             ELSE t
    IN IF i.ok THEN [s |-> SetAttrs(i.s, rid, v), ok |-> TRUE] ELSE i

\* Variant of Update: `if tags:` in place of `if tags is not None`, an empty
\* list is treated like an absent key.
UpdateTruthy(s, u, rid, v) ==
    LET t == IF v.tags # None /\ Get(v.tags) # <<>>
             THEN GetOrCreateTags([s EXCEPT !.recipes[rid].tags = {}], u, Get(v.tags), rid)
             ELSE [s |-> s, ok |-> TRUE]
        i == IF t.ok /\ v.ingredients # None /\ Get(v.ingredients) # <<>>
             THEN GetOrCreateIngredients([t.s EXCEPT !.recipes[rid].ingredients = {}],
                                         u, Get(v.ingredients), rid)
             ELSE t
    IN IF i.ok THEN [s |-> SetAttrs(i.s, rid, v), ok |-> TRUE] ELSE i

\* Variant of Update: pop(key, []) as in create, an absent key is treated
\* like an empty list.
UpdateDefaultEmpty(s, u, rid, v) ==
    LET tg == IF v.tags = None THEN <<>> ELSE Get(v.tags)
        ig == IF v.ingredients = None THEN <<>> ELSE Get(v.ingredients)
        t == GetOrCreateTags([s EXCEPT !.recipes[rid].tags = {}], u, tg, rid)
        i == IF t.ok
             THEN GetOrCreateIngredients([t.s EXCEPT !.recipes[rid].ingredients = {}],
                                         u, ig, rid)
             ELSE t
    IN IF i.ok THEN [s |-> SetAttrs(i.s, rid, v), ok |-> TRUE] ELSE i

\* Variant of Update: clearing the tags deletes the tag rows that were on
\* the recipe, not only the associations.
UpdateDeletesCleared(s, u, rid, v) ==
    LET gone == IF v.tags # None THEN s.recipes[rid].tags ELSE {}
        s0 == [s EXCEPT !.tags = [i \in DOMAIN s.tags \ gone |-> s.tags[i]],
                        !.recipes = [r \in DOMAIN s.recipes |->
                                       [s.recipes[r] EXCEPT !.tags = @ \ gone]]]
        t == IF v.tags # None
             THEN GetOrCreateTags(s0, u, Get(v.tags), rid)
             ELSE [s |-> s0, ok |-> TRUE]
        i == IF t.ok /\ v.ingredients # None
             THEN GetOrCreateIngredients([t.s EXCEPT !.recipes[rid].ingredients = {}],
                                         u, Get(v.ingredients), rid)
             ELSE t
    IN IF i.ok THEN [s |-> SetAttrs(i.s, rid, v), ok |-> TRUE] ELSE i

\* RecipeSerializer.update
Update(s, u, rid, v) ==
    LET t == IF v.tags # None
             THEN GetOrCreateTags([s EXCEPT !.recipes[rid].tags = {}], u, Get(v.tags), rid)
             ELSE [s |-> s, ok |-> TRUE]
        i == IF t.ok /\ v.ingredients # None
             THEN GetOrCreateIngredients([t.s EXCEPT !.recipes[rid].ingredients = {}],
                                         u, Get(v.ingredients), rid)
             ELSE t
    IN IF i.ok THEN [s |-> SetAttrs(i.s, rid, v), ok |-> TRUE] ELSE i

\* ------------------------------------------------------------ RecipeViewSet
\* A comma-separated query parameter is held as the list of its pieces
\* (str.split(",")); the empty string is the single empty piece.
IntOf == ("1" :> 1) @@ ("2" :> 2) @@ ("3" :> 3)

\* RecipeViewSet._params_to_ints: int() of every piece, ValueError (ok =
\* FALSE) when a piece is not an integer literal.
ParamsToInts(pieces) ==
    IF \A i \in DOMAIN pieces : pieces[i] \in DOMAIN IntOf
    THEN [ok |-> TRUE, ids |-> [i \in DOMAIN pieces |-> IntOf[pieces[i]]]]
    ELSE [ok |-> FALSE, ids |-> <<>>]

\* `if tags:` - the parameter was sent and is not the empty string
Truthy(q) == q # None /\ Get(q) # <<"">>

RECURSIVE Repeat(_, _)
Repeat(x, n) == IF n = 0 THEN <<>> ELSE <<x>> \o Repeat(x, n - 1)

\* queryset.filter(<relation>__id__in=ids) joins the association table: a
\* recipe contributes one row per association it has with a listed id.
JoinCount(assoc, q) ==
    IF Truthy(q) THEN Cardinality(assoc \cap Range(ParamsToInts(Get(q)).ids)) ELSE 1

\* Variant of JoinedRows: the owner is not filtered on.
RECURSIVE JoinedRowsAnyUser(_, _, _, _, _)
JoinedRowsAnyUser(s, u, qt, qi, n) ==
    IF n = 0 THEN <<>>
    ELSE (IF n \in DOMAIN s.recipes
          THEN Repeat(n, JoinCount(s.recipes[n].tags, qt)
                         * JoinCount(s.recipes[n].ingredients, qi))
          ELSE <<>>)
         \o JoinedRowsAnyUser(s, u, qt, qi, n - 1)

\* Variant of JoinedRows: with both parameters a recipe matching either is
\* kept.
RECURSIVE JoinedRowsEither(_, _, _, _, _)
JoinedRowsEither(s, u, qt, qi, n) ==
    IF n = 0 THEN <<>>
    ELSE (IF n \in DOMAIN s.recipes /\ s.recipes[n].user = u
          THEN Repeat(n, IF Truthy(qt) /\ Truthy(qi)
                         THEN JoinCount(s.recipes[n].tags, qt)
                              + JoinCount(s.recipes[n].ingredients, qi)
                         ELSE JoinCount(s.recipes[n].tags, qt)
                              * JoinCount(s.recipes[n].ingredients, qi))
          ELSE <<>>)
         \o JoinedRowsEither(s, u, qt, qi, n - 1)

\* Variant of JoinedRows: order_by("id"), the oldest recipe first.
RECURSIVE JoinedRowsOldestFirst(_, _, _, _, _)
JoinedRowsOldestFirst(s, u, qt, qi, n) ==
    IF n = 0 THEN <<>>
    ELSE JoinedRowsOldestFirst(s, u, qt, qi, n - 1)
         \o (IF n \in DOMAIN s.recipes /\ s.recipes[n].user = u
             THEN Repeat(n, JoinCount(s.recipes[n].tags, qt)
                            * JoinCount(s.recipes[n].ingredients, qi))
             ELSE <<>>)

\* ... .filter(user=u).order_by("-id"): the joined rows of u's recipes with
\* ids n, n-1, ..., 1.
RECURSIVE JoinedRows(_, _, _, _, _)
JoinedRows(s, u, qt, qi, n) ==
    IF n = 0 THEN <<>>
    ELSE (IF n \in DOMAIN s.recipes /\ s.recipes[n].user = u
          THEN Repeat(n, JoinCount(s.recipes[n].tags, qt)
                         * JoinCount(s.recipes[n].ingredients, qi))
          ELSE <<>>)
         \o JoinedRows(s, u, qt, qi, n - 1)

\* Variant of Distinct: the joined rows are returned as they are.
DistinctOff(q) == q

\* .distinct(): a row equal to an earlier row is dropped
RECURSIVE Distinct(_)
Distinct(q) ==
    IF q = <<>> THEN <<>>
    ELSE LET front == Distinct(SubSeq(q, 1, Len(q) - 1))
             x == q[Len(q)]
         IN IF x \in Range(front) THEN front ELSE Append(front, x)

\* RecipeViewSet.get_queryset: ok = FALSE when _params_to_ints raises
RecipeQueryset(s, u, qt, qi) ==
    IF (Truthy(qt) /\ ~ParamsToInts(Get(qt)).ok)
       \/ (Truthy(qi) /\ ~ParamsToInts(Get(qi)).ok)
    THEN [ok |-> FALSE, rows |-> <<>>]
    ELSE [ok |-> TRUE,
          rows |-> Distinct(JoinedRows(s, u, qt, qi, s.nextId.recipe - 1))]

\* ----------------------------------------------------- BaseRecipeAttrViewSet
\* Names compare as strings.
NameOrd == ("a" :> 1) @@ ("b" :> 2)

Perms(S) ==
    {q \in [1..Cardinality(S) -> S] : \A i, j \in DOMAIN q : i # j => q[i] # q[j]}

\* BaseRecipeAttrViewSet.get_queryset: the rows of u ordered by name,
\* descending; the store fixes no order among equal names, so every such
\* order is a possible result.  Query parameters are not read.
\* Variant of AttrFilter: the owner is not filtered on.
AttrFilterAnyUser(rows, u) == DOMAIN rows

\* queryset.filter(user=self.request.user)
AttrFilter(rows, u) == {i \in DOMAIN rows : rows[i].user = u}

AttrQueryset(rows, u, assigned_only) ==
    LET mine == AttrFilter(rows, u)
    IN {q \in Perms(mine) :
          \A i, j \in DOMAIN q : i < j => NameOrd[rows[q[i]].name] >= NameOrd[rows[q[j]].name]}

\* --------------------------------------------------------------- requests
\* Two server workers that handle POST /recipes/ {title, tags: [{name}]}
\* side by side.  A worker that has not taken its request is Waiting.
Writers == {"w1", "w2"}
Waiting == [pc |-> "waiting", user |-> 0, name |-> "", rid |-> 0, found |-> 0]

Idle == [op |-> "idle", kind |-> "", user |-> 0, id |-> 0, partial |-> FALSE,
         data |-> NoData, status |-> 0]

Req(op, kind, u, id, partial, data, status) ==
    [op |-> op, kind |-> kind, user |-> u, id |-> id, partial |-> partial,
     data |-> data, status |-> status]

\* A create request reduced to its user, the recipe id it was given and the
\* names its two descriptor lists carried
ListNames(o) == IF o = None THEN {} ELSE {Get(d) : d \in Range(Get(o)) \ {None}}
NoCreate == [user |-> 0, id |-> 0, tags |-> {}, ingredients |-> {}]
Created(r) == [user |-> r.user, id |-> r.id, tags |-> ListNames(r.data.tags),
               ingredients |-> ListNames(r.data.ingredients)]

Kinds == {"tag", "ingredient"}

\* Embedded descriptor lists a client sends: no, one or two named
\* descriptors, a name twice, and lists with a descriptor that lacks its
\* name.
NamedLists ==
    {<<>>, <<Some("a")>>, <<Some("b")>>, <<Some("a"), Some("b")>>,
     <<Some("a"), Some("a")>>}
DescLists == NamedLists \cup {<<None>>, <<Some("a"), None>>}

\* Recipe payloads a client sends.  PATCH: one relation key with any list,
\* both relation keys, or a title and an owner each present or absent.
\* POST: the same completed with the required title, and the empty payload.
\* PUT: the empty payload, and the completed payloads without a relation
\* key or with both.
BothRelations ==
    {[NoData EXCEPT !.tags = Some(l), !.ingredients = Some(m)] :
        l \in {<<>>, <<Some("a")>>}, m \in {<<>>, <<Some("a")>>}}
RelationPayloads ==
    {[NoData EXCEPT !.tags = Some(l)] : l \in DescLists}
    \cup {[NoData EXCEPT !.ingredients = Some(l)] : l \in DescLists}
    \cup BothRelations
ScalarPayloads ==
    {[NoData EXCEPT !.title = t, !.user = o] : t \in Opt({"x"}), o \in Opt(Users)}
Completed(p) == [p EXCEPT !.title = IF @ = None THEN Some("x") ELSE @]
PatchPayloads == RelationPayloads \cup ScalarPayloads
PostPayloads == {Completed(p) : p \in PatchPayloads} \cup {NoData}
PutPayloads ==
    {Completed(p) : p \in ScalarPayloads \cup BothRelations} \cup {NoData}

\* Payloads that tell the scalar columns apart: two titles and two links,
\* each present or absent, an owner key, one relation key or the other.
Titles == {"x", "y"}
Links == {"l", "m"}
FieldPatchPayloads ==
    {[NoData EXCEPT !.title = t, !.link = l] : t \in Opt(Titles), l \in Opt(Links)}
    \cup {[NoData EXCEPT !.link = Some("m"), !.user = Some(u)] : u \in Users}
    \cup {[NoData EXCEPT !.title = Some("y"), !.tags = Some(<<Some("a")>>)],
          [NoData EXCEPT !.link = Some("l"), !.ingredients = Some(<<Some("a")>>)]}
FieldPostPayloads == {Completed(p) : p \in FieldPatchPayloads}

\* The project settings are not among the sources.  Section 1 of the
\* specification gives the layer no partial-failure handling beyond the
\* default error answers and the serializer opens no transaction, so a
\* request is not wrapped in one (ATOMIC_REQUESTS is off, Django's default):
\* the rows a handler wrote before an exception stay.
AtomicRequests == FALSE

\* After a handler the primary-key counters stay within the bounds.
InBounds(s) ==
    /\ s.nextId.tag <= MaxTags + 1
    /\ s.nextId.ingredient <= MaxIngredients + 1
    /\ s.nextId.recipe <= MaxRecipes + 1
    /\ s.nextId.tag + s.nextId.ingredient + s.nextId.recipe - 3 <= MaxRows

Commit(s) ==
    /\ InBounds(s)
    /\ tags' = s.tags
    /\ ingredients' = s.ingredients
    /\ recipes' = s.recipes
    /\ nextId' = s.nextId

Unchanged == UNCHANGED <<tags, ingredients, recipes, nextId>>

\* Variant of RecipeVisible: get_object() looks in Recipe.objects.all().
RecipeVisibleAnyUser(s, u, rid) == rid \in DOMAIN s.recipes

\* get_object(): the row with that id in get_queryset(), else Http404
RecipeVisible(s, u, rid) == rid \in Range(RecipeQueryset(s, u, None, None).rows)

\* POST /recipes/ with one of the given payloads.  The two users are
\* interchangeable; the first recipe of a run is created by user 1.
CreateRecipeFrom(payloads) ==
    /\ last = Idle
    /\ UNCHANGED writers
    /\ UNCHANGED prev
    /\ \E u \in Users, p \in payloads :
          /\ nextId.recipe = 1 => u = 1
          /\ IF ~RecipeValid(p, FALSE)
             THEN Unchanged /\ last' = Req("create", "recipe", u, 0, FALSE, p, 400)
             ELSE LET r == Create(Store, u, Validated(p))
                  IN /\ Commit(IF r.ok \/ ~AtomicRequests THEN r.s ELSE Store)
                     /\ last' = Req("create", "recipe", u, nextId.recipe, FALSE, p,
                                    IF r.ok THEN 201 ELSE 500)

CreateRecipe == CreateRecipeFrom(PostPayloads)

\* PATCH /recipes/{id}/ for an id get_object() does not find (PUT takes the
\* same path: get_object() runs before the body is read)
UpdateRecipeNotFound ==
    /\ last = Idle
    /\ UNCHANGED writers
    /\ prev' = NoCreate
    /\ Unchanged
    /\ \E u \in Users, rid \in 1..MaxRecipes :
          /\ ~RecipeVisible(Store, u, rid)
          /\ last' = Req("update", "recipe", u, rid, TRUE, NoData, 404)

\* PUT / PATCH /recipes/{id}/ with one of the given payloads
UpdateRecipeFrom(patch, put) ==
    /\ last = Idle
    /\ UNCHANGED writers
    /\ prev' = NoCreate
    /\ \E u \in Users, rid \in 1..MaxRecipes :
          /\ RecipeVisible(Store, u, rid)
          /\ \E partial \in BOOLEAN :
               \E p \in IF partial THEN patch ELSE put :
                  IF ~RecipeValid(p, partial)
                  THEN Unchanged
                       /\ last' = Req("update", "recipe", u, rid, partial, p, 400)
                  ELSE LET r == Update(Store, u, rid, Validated(p))
                       IN /\ Commit(IF r.ok \/ ~AtomicRequests THEN r.s ELSE Store)
                          /\ last' = Req("update", "recipe", u, rid, partial, p,
                                         IF r.ok THEN 200 ELSE 500)

UpdateRecipe == UpdateRecipeFrom(PatchPayloads, PutPayloads)

\* DELETE /recipes/{id}/: the row goes, and with it its association rows
DestroyRecipe ==
    /\ last = Idle
    /\ UNCHANGED writers
    /\ prev' = NoCreate
    /\ \E u \in Users, rid \in 1..MaxRecipes :
          IF ~RecipeVisible(Store, u, rid)
          THEN Unchanged /\ last' = Req("destroy", "recipe", u, rid, FALSE, NoData, 404)
          ELSE /\ recipes' = [i \in DOMAIN recipes \ {rid} |-> recipes[i]]
               /\ UNCHANGED <<tags, ingredients, nextId>>
               /\ last' = Req("destroy", "recipe", u, rid, FALSE, NoData, 204)

\* GET /recipes/{id}/
RetrieveRecipe ==
    /\ last = Idle
    /\ UNCHANGED writers
    /\ prev' = NoCreate
    /\ Unchanged
    /\ \E u \in Users, rid \in 1..MaxRecipes :
          last' = Req("retrieve", "recipe", u, rid, FALSE, NoData,
                      IF RecipeVisible(Store, u, rid) THEN 200 ELSE 404)

\* Variant of IsAuthenticated: permission_classes = [AllowAny].
AllowAny(u) == TRUE

\* permission_classes = [IsAuthenticated] behind TokenAuthentication,
\* checked before the handler runs: a request without a valid token is
\* answered 401.
IsAuthenticated(u) == u \in Users

\* Comma-separated id parameters a client sends
QueryParams ==
    {None, Some(<<"">>), Some(<<"1">>), Some(<<"1", "2">>), Some(<<"1", "abc">>),
     Some(<<"1", "">>)}
\* ... the tags parameter alone, or a list of ids as the ingredients
\* parameter or as both
IdLists == {Some(<<"1">>), Some(<<"1", "2">>)}
QueryPairs ==
    {<<q, None>> : q \in QueryParams} \cup {<<None, q>> : q \in IdLists}
    \cup {<<q, q>> : q \in IdLists}

\* GET /recipes/?tags=..&ingredients=..  The anonymous client sends the
\* request without parameters.
ListRecipes ==
    /\ last = Idle
    /\ UNCHANGED writers
    /\ prev' = NoCreate
    /\ Unchanged
    /\ \E u \in Clients, q \in QueryPairs :
          /\ u = Anonymous => q = <<None, None>>
          /\ last' = Req("list", "recipe", u, 0, FALSE,
                         [NoData EXCEPT !.q_tags = q[1], !.q_ingredients = q[2]],
                         IF ~IsAuthenticated(u) THEN 401
                         ELSE IF RecipeQueryset(Store, u, q[1], q[2]).ok THEN 200
                         ELSE 500)

Rows(s, kind) == IF kind = "tag" THEN s.tags ELSE s.ingredients

\* GET /tags/ and GET /ingredients/, with or without assigned_only
ListAttr ==
    /\ last = Idle
    /\ UNCHANGED writers
    /\ prev' = NoCreate
    /\ Unchanged
    /\ \E kind \in Kinds, u \in Clients, ao \in Opt({"1"}) :
          /\ u = Anonymous => ao = None
          /\ last' = Req("list", kind, u, 0, FALSE,
                         [NoData EXCEPT !.assigned_only = ao],
                         IF IsAuthenticated(u) THEN 200 ELSE 401)

\* get_object(): the row with that id in get_queryset(), else Http404
AttrVisible(s, kind, u, id) == id \in AttrFilter(Rows(s, kind), u)

\* ids a client names in a tag or ingredient URL
MaxAttr == IF MaxTags > MaxIngredients THEN MaxTags ELSE MaxIngredients

\* PATCH /tags/{id}/ and /ingredients/{id}/ for an id get_object() does
\* not find
UpdateAttrNotFound ==
    /\ last = Idle
    /\ UNCHANGED writers
    /\ prev' = NoCreate
    /\ Unchanged
    /\ \E kind \in Kinds, u \in Users, id \in 1..MaxAttr :
          /\ ~AttrVisible(Store, kind, u, id)
          /\ last' = Req("update", kind, u, id, TRUE, NoData, 404)

\* GET /tags/{id}/ and /ingredients/{id}/: BaseRecipeAttrViewSet has the
\* list, update and destroy mixins and no retrieve; the router binds no
\* handler to GET on the detail route and the request is answered 405
\* Method Not Allowed before any row is looked up.
RetrieveAttr ==
    /\ last = Idle
    /\ UNCHANGED writers
    /\ prev' = NoCreate
    /\ Unchanged
    /\ \E kind \in Kinds, u \in Users, id \in 1..MaxAttr :
          last' = Req("retrieve", kind, u, id, FALSE, NoData, 405)

\* PUT / PATCH /tags/{id}/ and /ingredients/{id}/: the name is written when
\* the payload carries one; PUT requires it.
UpdateAttr ==
    /\ last = Idle
    /\ UNCHANGED writers
    /\ prev' = NoCreate
    /\ UNCHANGED <<recipes, nextId>>
    /\ \E kind \in Kinds, u \in Users, id \in 1..MaxAttr :
          /\ AttrVisible(Store, kind, u, id)
          /\ \E partial \in BOOLEAN, nm \in Opt(Names) :
               LET rows == Rows(Store, kind)
                   new  == IF nm = None THEN rows
                           ELSE [rows EXCEPT ![id].name = Get(nm)]
                   clash == UniqueOwnerName /\ nm # None
                            /\ Matches(rows, u, Get(nm)) \ {id} # {}
                   status == IF ~partial /\ nm = None THEN 400
                             ELSE IF clash THEN 500 ELSE 200
               IN /\ last' = Req("update", kind, u, id, partial,
                                 [NoData EXCEPT !.name = nm], status)
                  /\ tags' = IF status = 200 /\ kind = "tag" THEN new ELSE tags
                  /\ ingredients' = IF status = 200 /\ kind = "ingredient"
                                    THEN new ELSE ingredients

\* Variant of DestroyAttr: the recipes that carry the row go with it.
DestroyAttrCascade ==
    /\ last = Idle
    /\ UNCHANGED writers
    /\ prev' = NoCreate
    /\ UNCHANGED nextId
    /\ \E kind \in Kinds, u \in Users, id \in 1..MaxAttr :
          IF ~AttrVisible(Store, kind, u, id)
          THEN Unchanged /\ last' = Req("destroy", kind, u, id, FALSE, NoData, 404)
          ELSE /\ last' = Req("destroy", kind, u, id, FALSE, NoData, 204)
               /\ IF kind = "tag"
                  THEN /\ tags' = [i \in DOMAIN tags \ {id} |-> tags[i]]
                       /\ recipes' = [r \in {x \in DOMAIN recipes : id \notin recipes[x].tags}
                                        |-> recipes[r]]
                       /\ UNCHANGED ingredients
                  ELSE /\ ingredients' =
                             [i \in DOMAIN ingredients \ {id} |-> ingredients[i]]
                       /\ recipes' = [r \in {x \in DOMAIN recipes :
                                                id \notin recipes[x].ingredients}
                                        |-> recipes[r]]
                       /\ UNCHANGED tags

\* DELETE /tags/{id}/ and /ingredients/{id}/: the row goes, and with it its
\* association rows
DestroyAttr ==
    /\ last = Idle
    /\ UNCHANGED writers
    /\ prev' = NoCreate
    /\ UNCHANGED nextId
    /\ \E kind \in Kinds, u \in Users, id \in 1..MaxAttr :
          IF ~AttrVisible(Store, kind, u, id)
          THEN Unchanged /\ last' = Req("destroy", kind, u, id, FALSE, NoData, 404)
          ELSE /\ last' = Req("destroy", kind, u, id, FALSE, NoData, 204)
               /\ IF kind = "tag"
                  THEN /\ tags' = [i \in DOMAIN tags \ {id} |-> tags[i]]
                       /\ recipes' = [r \in DOMAIN recipes |->
                                        [recipes[r] EXCEPT !.tags = @ \ {id}]]
                       /\ UNCHANGED ingredients
                  ELSE /\ ingredients' =
                             [i \in DOMAIN ingredients \ {id} |-> ingredients[i]]
                       /\ recipes' = [r \in DOMAIN recipes |->
                                        [recipes[r] EXCEPT !.ingredients = @ \ {id}]]
                       /\ UNCHANGED tags

\* The response reaches the client; the next request can be handled.
Deliver ==
    /\ last # Idle
    /\ UNCHANGED writers
    /\ last' = Idle
    /\ prev' = IF last.op = "create" /\ last.status = 201 THEN Created(last) ELSE NoCreate
    /\ Unchanged

\* ------------------------------------------------- creates side by side
\* RecipeSerializer.create run by two workers, one store statement at a
\* time.  No statement of create() or _get_or_create_tags holds a lock or
\* sits in a transaction that spans another: between any two of them the
\* other worker may run.

\* A worker takes POST /recipes/ {title: x, tags: [{name: n}]} of user u;
\* the payload is valid and Recipe.objects.create inserts the recipe row.
RaceCreateRecipe ==
    /\ UNCHANGED <<tags, ingredients, last, prev>>
    /\ \E w \in Writers, u \in Users, n \in Names :
          /\ writers[w].pc = "waiting"
          /\ recipes' = recipes @@
                (nextId.recipe :> [user |-> u, title |-> "x", link |-> None,
                                   tags |-> {}, ingredients |-> {}])
          /\ nextId' = [nextId EXCEPT !.recipe = @ + 1]
          /\ writers' = [writers EXCEPT ![w] =
                [pc |-> "get", user |-> u, name |-> n, rid |-> nextId.recipe,
                 found |-> 0]]

\* get_or_create, first statement: self.get(user=u, name=n).  One match is
\* the result, no match leads to the insert, several raise
\* MultipleObjectsReturned and the request ends as 500.
RaceGet ==
    /\ UNCHANGED <<tags, ingredients, recipes, nextId, last, prev>>
    /\ \E w \in Writers :
          /\ writers[w].pc = "get"
          /\ LET m == Matches(tags, writers[w].user, writers[w].name)
             IN writers' = [writers EXCEPT ![w] =
                   IF Cardinality(m) > 1 THEN [@ EXCEPT !.pc = "error"]
                   ELSE IF m = {} THEN [@ EXCEPT !.pc = "create"]
                   ELSE [@ EXCEPT !.pc = "add", !.found = Get(m)]]

\* get_or_create, second statement: self.create(user=u, name=n).  A store
\* that keeps (owner, name) unique refuses the insert when a row has
\* appeared since the lookup, and get_or_create then returns that row; a
\* store that does not inserts a further row.
RaceCreate ==
    /\ UNCHANGED <<ingredients, recipes, last, prev>>
    /\ \E w \in Writers :
          /\ writers[w].pc = "create"
          /\ LET m == Matches(tags, writers[w].user, writers[w].name)
             IN IF UniqueOwnerName /\ m # {}
                THEN /\ UNCHANGED <<tags, nextId>>
                     /\ writers' = [writers EXCEPT ![w] =
                           [@ EXCEPT !.pc = "add", !.found = Get(m)]]
                ELSE /\ tags' = tags @@
                           (nextId.tag :> [user |-> writers[w].user,
                                           name |-> writers[w].name])
                     /\ nextId' = [nextId EXCEPT !.tag = @ + 1]
                     /\ writers' = [writers EXCEPT ![w] =
                           [@ EXCEPT !.pc = "add", !.found = nextId.tag]]

\* recipe.tags.add(tag_obj); the request is answered 201.
RaceAdd ==
    /\ UNCHANGED <<tags, ingredients, nextId, last, prev>>
    /\ \E w \in Writers :
          /\ writers[w].pc = "add"
          /\ recipes' = [recipes EXCEPT ![writers[w].rid].tags =
                            @ \cup {writers[w].found}]
          /\ writers' = [writers EXCEPT ![w] = [@ EXCEPT !.pc = "done"]]

NextRace ==
    \/ RaceCreateRecipe
    \/ RaceGet
    \/ RaceCreate
    \/ RaceAdd

Init ==
    /\ tags = << >>
    /\ ingredients = << >>
    /\ recipes = << >>
    /\ nextId = [tag |-> 1, ingredient |-> 1, recipe |-> 1]
    /\ last = Idle
    /\ prev = NoCreate
    /\ writers = [w \in Writers |-> Waiting]

\* The recipe endpoints exercised on their scalar columns: at most
\* MaxFieldRecipes recipes, payloads from FieldPostPayloads and
\* FieldPatchPayloads.
CreateRecipeFields ==
    /\ nextId.recipe <= MaxFieldRecipes
    /\ CreateRecipeFrom(FieldPostPayloads)

UpdateRecipeFields == UpdateRecipeFrom(FieldPatchPayloads, FieldPostPayloads)

NextFields ==
    \/ CreateRecipeFields
    \/ UpdateRecipeFields
    \/ Deliver

SpecFields == Init /\ [][NextFields]_vars

SpecRace == Init /\ [][NextRace]_vars

Next ==
    \/ CreateRecipe
    \/ UpdateRecipeNotFound
    \/ UpdateRecipe
    \/ DestroyRecipe
    \/ RetrieveRecipe
    \/ ListRecipes
    \/ ListAttr
    \/ RetrieveAttr
    \/ UpdateAttrNotFound
    \/ UpdateAttr
    \/ DestroyAttr
    \/ Deliver

Spec == Init /\ [][Next]_vars

\* ================================================================ properties
RecipeWrite(r, op) == r.op = op /\ r.kind = "recipe"
NoRepeat(q) == Len(q) = Cardinality(Range(q))
\* The ids a comma-separated parameter names
IdsOf(q) == {IntOf[Get(q)[i]] : i \in DOMAIN Get(q)}
\* The recipe list sent in answer to the request in `last`
Listed == RecipeQueryset(Store, last.user, last.data.q_tags, last.data.q_ingredients).rows
Owned(rows, u) == {i \in DOMAIN rows : rows[i].user = u}
\* The ids of the rows the answer to the list request in `last` carries:
\* the queryset's for a 200, none with an error status
Returned ==
    IF last.status # 200 THEN {}
    ELSE IF last.kind = "recipe" THEN Range(Listed)
    ELSE UNION {Range(q) : q \in AttrQueryset(Rows(Store, last.kind), last.user,
                                               last.data.assigned_only)}
Named(rows, u, names) == {i \in Owned(rows, u) : rows[i].name \in names}

\* C1: a tag list and an ingredient list hold rows of the requesting user
\* only, whatever the other users own, and without a filter they hold every
\* row of the requesting user.
AttrListOwnRowsOnly ==
    (last.op = "list" /\ last.kind \in Kinds) =>
        LET rows == Rows(Store, last.kind)
            results == AttrQueryset(rows, last.user, last.data.assigned_only)
        IN /\ results # {}
           /\ \A q \in results :
                /\ \A i \in Range(q) : rows[i].user = last.user
                /\ last.data.assigned_only = None => Owned(rows, last.user) \subseteq Range(q)

\* C1 witness: a user lists the tags while both users own tags.
AttrListOwnRowsOnlyWitness ==
    /\ last.op = "list" /\ last.kind = "tag" /\ last.data.assigned_only = None
    /\ \E i, j \in DOMAIN tags : tags[i].user = last.user /\ tags[j].user # last.user

\* C2: a recipe list holds recipes of the requesting user only, for every
\* combination of the tags and ingredients parameters, also when the ids
\* name rows of another user.
RecipeListOwnRowsOnly ==
    (last.op = "list" /\ last.kind = "recipe" /\ last.status = 200) =>
        \A i \in Range(Listed) : i \in DOMAIN recipes /\ recipes[i].user = last.user

\* C2 witness: the list is filtered by a tag of the other user that is on a
\* recipe of the other user, and the requesting user has a recipe.
RecipeListOwnRowsOnlyWitness ==
    /\ last.op = "list" /\ last.kind = "recipe" /\ last.status = 200
    /\ Truthy(last.data.q_tags)
    /\ \E t \in IdsOf(last.data.q_tags) \cap DOMAIN tags, r \in DOMAIN recipes :
          /\ tags[t].user # last.user
          /\ recipes[r].user # last.user /\ t \in recipes[r].tags
    /\ \E r \in DOMAIN recipes : recipes[r].user = last.user

\* C3: when two recipes are created one after the other by the same user
\* and both name N, the store holds exactly one row (user, N) afterwards and
\* both recipes are associated with it; for tags and for ingredients.
TwoCreatesShareOneRow ==
    (RecipeWrite(last, "create") /\ last.status = 201
     /\ prev # NoCreate /\ prev.user = last.user) =>
        /\ \A n \in ListNames(last.data.tags) \cap prev.tags :
              \E t \in DOMAIN tags :
                 /\ Matches(tags, last.user, n) = {t}
                 /\ t \in recipes[prev.id].tags /\ t \in recipes[last.id].tags
        /\ \A n \in ListNames(last.data.ingredients) \cap prev.ingredients :
              \E t \in DOMAIN ingredients :
                 /\ Matches(ingredients, last.user, n) = {t}
                 /\ t \in recipes[prev.id].ingredients
                 /\ t \in recipes[last.id].ingredients

\* C3 witness: recipes 2 and 3 were created one after the other with a name
\* whose row was on recipe 1 before.
TwoCreatesShareOneRowWitness ==
    /\ RecipeWrite(last, "create") /\ last.status = 201
    /\ prev.id = 2 /\ last.id = 3 /\ prev.user = last.user
    /\ 1 \in DOMAIN recipes
    /\ \E t \in DOMAIN tags :
          /\ tags[t].name \in ListNames(last.data.tags) \cap prev.tags
          /\ t \in recipes[1].tags \cap recipes[2].tags \cap recipes[3].tags

\* C4: after a successful recipe update whose payload carries the tags key
\* the recipe's tags are exactly the requester's tags with a name of the
\* payload, and every name of the payload has a row; the same for
\* ingredients.
UpdateReplacesRelation ==
    (RecipeWrite(last, "update") /\ last.status = 200) =>
        /\ last.data.tags # None =>
              LET names == ListNames(last.data.tags)
              IN /\ recipes[last.id].tags = Named(tags, last.user, names)
                 /\ \A n \in names : Matches(tags, last.user, n) # {}
        /\ last.data.ingredients # None =>
              LET names == ListNames(last.data.ingredients)
              IN /\ recipes[last.id].ingredients = Named(ingredients, last.user, names)
                 /\ \A n \in names : Matches(ingredients, last.user, n) # {}

\* C4 witness: the only recipe ever created was updated to the tag list
\* [b]; the requester's tag a, which was on it earlier, is no longer.
UpdateReplacesRelationWitness ==
    /\ RecipeWrite(last, "update") /\ last.status = 200
    /\ last.data.tags = Some(<<Some("b")>>)
    /\ nextId.recipe = 2
    /\ \E t \in Owned(tags, last.user) :
          tags[t].name = "a" /\ t \notin recipes[last.id].tags
    /\ recipes[last.id].tags # {}

\* C5: a successful recipe update with tags: [] leaves the recipe without
\* tags, one with ingredients: [] leaves it without ingredients, and an
\* update of one's own recipe whose relation keys carry only empty lists
\* succeeds.
EmptyListClearsRelation ==
    (RecipeWrite(last, "update") /\ last.status \notin {400, 404}) =>
        /\ (last.status = 200 /\ last.data.tags = Some(<<>>)) =>
              recipes[last.id].tags = {}
        /\ (last.status = 200 /\ last.data.ingredients = Some(<<>>)) =>
              recipes[last.id].ingredients = {}
        /\ (/\ last.data.tags \in {None, Some(<<>>)}
            /\ last.data.ingredients \in {None, Some(<<>>)}) =>
              last.status = 200

\* C5 witness: the only recipe ever created was updated with tags: [] while
\* two tags of the requester exist, which were on it earlier.
EmptyListClearsRelationWitness ==
    /\ RecipeWrite(last, "update") /\ last.status = 200
    /\ last.data.tags = Some(<<>>)
    /\ nextId.recipe = 2
    /\ Cardinality(Owned(tags, last.user)) = 2

\* C6: a recipe update whose payload has no tags key leaves the recipe's
\* tags and the tag rows as they were, and one without an ingredients key
\* leaves the recipe's ingredients and the ingredient rows as they were.
AbsentKeyKeepsRelation ==
    [][(RecipeWrite(last', "update") /\ last'.status \in {200, 500}) =>
          /\ last'.data.tags = None =>
                /\ recipes'[last'.id].tags = recipes[last'.id].tags
                /\ tags' = tags
          /\ last'.data.ingredients = None =>
                /\ recipes'[last'.id].ingredients = recipes[last'.id].ingredients
                /\ ingredients' = ingredients]_vars

\* C6 witness: an update that carried only the ingredients key went through
\* on a recipe that has tags.
AbsentKeyKeepsRelationWitness ==
    /\ RecipeWrite(last, "update") /\ last.status = 200
    /\ last.data.tags = None /\ last.data.ingredients # None
    /\ recipes[last.id].tags # {}
    /\ recipes[last.id].ingredients # {}

\* C7: with only the tags parameter the recipe list is exactly the
\* requester's recipes that have one of the listed tags, each once; with
\* only the ingredients parameter likewise.
OneFilterExact ==
    (last.op = "list" /\ last.kind = "recipe" /\ last.status = 200) =>
        /\ (Truthy(last.data.q_tags) /\ ~Truthy(last.data.q_ingredients)) =>
              /\ Range(Listed) = {r \in Owned(recipes, last.user) :
                                    recipes[r].tags \cap IdsOf(last.data.q_tags) # {}}
              /\ NoRepeat(Listed)
        /\ (Truthy(last.data.q_ingredients) /\ ~Truthy(last.data.q_tags)) =>
              /\ Range(Listed) = {r \in Owned(recipes, last.user) :
                                    recipes[r].ingredients
                                       \cap IdsOf(last.data.q_ingredients) # {}}
              /\ NoRepeat(Listed)

\* C7 witness: tags=1,2 is asked for while one recipe of the requester has
\* both tags and another recipe of the requester has neither.
OneFilterExactWitness ==
    /\ last.op = "list" /\ last.kind = "recipe" /\ last.status = 200
    /\ last.data.q_tags = Some(<<"1", "2">>) /\ last.data.q_ingredients = None
    /\ \E r1, r2 \in Owned(recipes, last.user) :
          recipes[r1].tags = {1, 2} /\ recipes[r2].tags = {}

\* C8: with both parameters the recipe list is exactly the requester's
\* recipes that have one of the listed tags and one of the listed
\* ingredients, each once.
BothFiltersConjoin ==
    (/\ last.op = "list" /\ last.kind = "recipe" /\ last.status = 200
     /\ Truthy(last.data.q_tags) /\ Truthy(last.data.q_ingredients)) =>
        /\ Range(Listed) =
              {r \in Owned(recipes, last.user) :
                 /\ recipes[r].tags \cap IdsOf(last.data.q_tags) # {}
                 /\ recipes[r].ingredients \cap IdsOf(last.data.q_ingredients) # {}}
        /\ NoRepeat(Listed)

\* C8 witness: both parameters are sent; one recipe of the requester has a
\* listed tag and a listed ingredient, another has a listed tag only.
BothFiltersConjoinWitness ==
    /\ last.op = "list" /\ last.kind = "recipe" /\ last.status = 200
    /\ Truthy(last.data.q_tags) /\ Truthy(last.data.q_ingredients)
    /\ \E r1, r2 \in Owned(recipes, last.user) :
          /\ recipes[r1].tags \cap IdsOf(last.data.q_tags) # {}
          /\ recipes[r1].ingredients \cap IdsOf(last.data.q_ingredients) # {}
          /\ recipes[r2].tags \cap IdsOf(last.data.q_tags) # {}
          /\ recipes[r2].ingredients \cap IdsOf(last.data.q_ingredients) = {}

\* C9: with assigned_only=1 a tag list (ingredient list) is exactly the
\* requester's tags (ingredients) that are on at least one recipe, each
\* once.
AssignedOnlyFilters ==
    (last.op = "list" /\ last.kind \in Kinds /\ last.data.assigned_only = Some("1")) =>
        LET rows == Rows(Store, last.kind)
            assigned == {i \in Owned(rows, last.user) :
                           \E r \in DOMAIN recipes :
                              i \in (IF last.kind = "tag" THEN recipes[r].tags
                                     ELSE recipes[r].ingredients)}
        IN \A q \in AttrQueryset(rows, last.user, last.data.assigned_only) :
              Range(q) = assigned /\ NoRepeat(q)

BadFilter(q) == Truthy(q) /\ ~ParamsToInts(Get(q)).ok

\* C11: a recipe list request whose tags or ingredients parameter has a
\* non-integer piece (tags=1,abc or tags=1,) is answered with a client
\* error (4xx) and leaves the store as it was.
BadFilterClientError ==
    [][(/\ last'.op = "list" /\ last'.kind = "recipe"
        /\ (BadFilter(last'.data.q_tags) \/ BadFilter(last'.data.q_ingredients))) =>
          /\ last'.status \in 400..499
          /\ Store' = Store]_vars

\* C14: no recipe operation deletes or changes a tag or ingredient row:
\* after any step of a recipe handler every row that existed is still there
\* with its id, name and owner; a successful recipe deletion removes the
\* recipe row with its associations and nothing else.
RecipeOpsKeepAttrRows ==
    [][last'.kind = "recipe" =>
          /\ \A t \in DOMAIN tags : t \in DOMAIN tags' /\ tags'[t] = tags[t]
          /\ \A i \in DOMAIN ingredients :
                i \in DOMAIN ingredients' /\ ingredients'[i] = ingredients[i]
          /\ (last'.op = "destroy" /\ last'.status = 204) =>
                /\ recipes' = [r \in DOMAIN recipes \ {last'.id} |-> recipes[r]]
                /\ tags' = tags
                /\ ingredients' = ingredients]_vars

\* C14 witness: the last recipe was deleted; a tag and an ingredient, which
\* only a recipe write can have created, are still in the store.
RecipeOpsKeepAttrRowsWitness ==
    /\ RecipeWrite(last, "destroy") /\ last.status = 204
    /\ recipes = << >>
    /\ DOMAIN tags # {} /\ DOMAIN ingredients # {}

\* Names compare as strings: "a" sorts before "b".
NameLess(n, m) == n = "a" /\ m = "b"

\* C15: a recipe list, filtered or not, is in strictly descending order of
\* recipe id; a tag list and an ingredient list are in descending order of
\* name (no row stands before a row with a greater name).
ListsOrdered ==
    /\ (last.op = "list" /\ last.kind = "recipe" /\ last.status = 200) =>
          \A i, j \in DOMAIN Listed : i < j => Listed[i] > Listed[j]
    /\ (last.op = "list" /\ last.kind \in Kinds) =>
          LET rows == Rows(Store, last.kind)
          IN \A q \in AttrQueryset(rows, last.user, last.data.assigned_only) :
                \A i, j \in DOMAIN q :
                   i < j => ~NameLess(rows[q[i]].name, rows[q[j]].name)

\* C15 witness: a list filtered by tags=1,2 holds two recipes, one of which
\* has both tags.
ListsOrderedWitness ==
    /\ last.op = "list" /\ last.kind = "recipe" /\ last.status = 200
    /\ last.data.q_tags = Some(<<"1", "2">>)
    /\ Len(Listed) = 2
    /\ \E r \in Range(Listed) : recipes[r].tags = {1, 2}

\* C19: a recipe write that went past validation creates at most one tag
\* row per name of its tag list, and when it succeeds the recipe has exactly
\* one tag of each name of the list, also when the list names it twice or
\* the recipe had it already; the same for ingredients.
AssociationIdempotent ==
    [][(/\ last'.kind = "recipe" /\ last'.op \in {"create", "update"}
        /\ last'.status \in {200, 201, 500}) =>
          /\ \A n \in ListNames(last'.data.tags) :
                /\ Cardinality({t \in DOMAIN tags' \ DOMAIN tags :
                                   tags'[t].name = n}) <= 1
                /\ last'.status # 500 =>
                      Cardinality({t \in recipes'[last'.id].tags :
                                     tags'[t].name = n}) = 1
          /\ \A n \in ListNames(last'.data.ingredients) :
                /\ Cardinality({t \in DOMAIN ingredients' \ DOMAIN ingredients :
                                   ingredients'[t].name = n}) <= 1
                /\ last'.status # 500 =>
                      Cardinality({t \in recipes'[last'.id].ingredients :
                                     ingredients'[t].name = n}) = 1]_vars

\* C19 witness: the only recipe was updated with the tag list [a, a]; one
\* tag row was ever created and the recipe has it.
AssociationIdempotentWitness ==
    /\ RecipeWrite(last, "update") /\ last.status = 200
    /\ last.data.tags = Some(<<Some("a"), Some("a")>>)
    /\ nextId.recipe = 2 /\ nextId.tag = 2
    /\ recipes[1].tags = {1}

\* C20: after every step, every tag and ingredient on a recipe is a row
\* owned by the recipe's owner; a successful recipe write leaves the recipe
\* with a row of the requester for every name it carried, and no recipe
\* write associates or changes a row of another user.
AssociatedRowsShareOwner ==
    [][/\ \A r \in DOMAIN recipes' :
             /\ \A t \in recipes'[r].tags :
                   t \in DOMAIN tags' /\ tags'[t].user = recipes'[r].user
             /\ \A i \in recipes'[r].ingredients :
                   i \in DOMAIN ingredients'
                   /\ ingredients'[i].user = recipes'[r].user
       /\ (/\ last'.kind = "recipe" /\ last'.op \in {"create", "update"}
           /\ last'.status \in {200, 201, 500}) =>
             /\ \A t \in DOMAIN tags :
                   tags[t].user # last'.user =>
                      /\ t \in DOMAIN tags' /\ tags'[t] = tags[t]
                      /\ t \notin recipes'[last'.id].tags
             /\ \A i \in DOMAIN ingredients :
                   ingredients[i].user # last'.user =>
                      /\ i \in DOMAIN ingredients' /\ ingredients'[i] = ingredients[i]
                      /\ i \notin recipes'[last'.id].ingredients
             /\ last'.status # 500 =>
                   /\ \A n \in ListNames(last'.data.tags) :
                         Named(tags', last'.user, {n}) \cap recipes'[last'.id].tags # {}
                   /\ \A n \in ListNames(last'.data.ingredients) :
                         Named(ingredients', last'.user, {n})
                            \cap recipes'[last'.id].ingredients # {}]_vars

\* C20 witness: a recipe was created with a tag named n while the other
\* user owns a tag named n; the recipe has the requester's row, not the
\* other user's.
AssociatedRowsShareOwnerWitness ==
    /\ RecipeWrite(last, "create") /\ last.status = 201
    /\ \E n \in ListNames(last.data.tags), t1, t2 \in DOMAIN tags :
          /\ tags[t1].name = n /\ tags[t1].user # last.user
          /\ tags[t2].name = n /\ tags[t2].user = last.user
          /\ recipes[last.id].tags = {t2}

\* The key is present and one of its descriptors has no name
Malformed(o) == o # None /\ \E i \in DOMAIN Get(o) : Get(o)[i] = None

Table(kind) == IF kind = "recipe" THEN recipes ELSE Rows(Store, kind)
\* The row a detail request names exists and belongs to another user
Foreign(r) == r.id \in DOMAIN Table(r.kind) /\ Table(r.kind)[r.id].user # r.user
DetailOps == {"retrieve", "update", "destroy"}

\* C12 as stated: retrieving, updating or deleting a recipe, a tag or an
\* ingredient that exists and belongs to another user is answered 404 and
\* changes nothing.
ForeignNotFoundEveryOp ==
    [][(last'.op \in DetailOps /\ Foreign(last')) =>
          last'.status = 404 /\ Store' = Store]_vars

\* C12 amended: retrieving, updating or deleting a recipe, and updating or
\* deleting a tag or an ingredient, that belongs to another user is
\* answered 404, as it is for an id that names no row, and changes nothing.
ForeignNotFound ==
    [][(/\ last'.op \in DetailOps
        /\ ~(last'.op = "retrieve" /\ last'.kind \in Kinds)
        /\ (Foreign(last') \/ last'.id \notin DOMAIN Table(last'.kind))) =>
          last'.status = 404 /\ Store' = Store]_vars

\* C12 witness: deleting a tag of the other user that is on a recipe was
\* answered 404.
ForeignNotFoundWitness ==
    /\ last.op = "destroy" /\ last.kind = "tag" /\ last.status = 404
    /\ Foreign(last)
    /\ \E r \in DOMAIN recipes : last.id \in recipes[r].tags

\* C16: the recipe a successful create made is a new row owned by the
\* requesting user whatever the payload's owner key says, its title and
\* link are the payload's, and a relation key the payload leaves out gives
\* the recipe no association of that relation.
CreateStoresPayload ==
    [][(last'.op = "create" /\ last'.status = 201) =>
          LET p == last'.data
              rid == last'.id
          IN /\ rid \notin DOMAIN recipes
             /\ rid \in DOMAIN recipes'
             /\ recipes'[rid].user = last'.user
             /\ recipes'[rid].title = Get(p.title)
             /\ recipes'[rid].link = p.link
             /\ p.tags = None => recipes'[rid].tags = {}
             /\ p.ingredients = None => recipes'[rid].ingredients = {}]_vars

\* C16 witness: a create whose payload names the other user as owner,
\* carries a link and no tags key succeeded while the requester had a tag.
CreateStoresPayloadWitness ==
    /\ last.op = "create" /\ last.status = 201
    /\ last.data.user # None /\ Get(last.data.user) # last.user
    /\ last.data.link = Some("m") /\ last.data.tags = None
    /\ \E t \in DOMAIN tags : tags[t].user = last.user
    /\ recipes[last.id].user = last.user
    /\ recipes[last.id].link = Some("m")

\* C17: a successful partial update leaves the recipe's title and link as
\* the payload gives them where it gives them and as they were where it
\* does not, and leaves the owner as it was.
PartialUpdateScalars ==
    [][(last'.op = "update" /\ last'.partial /\ last'.status = 200) =>
          LET p == last'.data
              old == recipes[last'.id]
              new == recipes'[last'.id]
          IN /\ new.title = IF p.title # None THEN Get(p.title) ELSE old.title
             /\ new.link = IF p.link # None THEN p.link ELSE old.link
             /\ new.user = old.user]_vars

\* C17 witness: a partial update that carried a link and the other user as
\* owner, and no title, succeeded on a recipe titled "y".
PartialUpdateScalarsWitness ==
    /\ last.op = "update" /\ last.partial /\ last.status = 200
    /\ last.data.title = None /\ last.data.link = Some("m")
    /\ last.data.user # None /\ Get(last.data.user) # last.user
    /\ recipes[last.id].title = "y"
    /\ recipes[last.id].link = Some("m")
    /\ recipes[last.id].user = last.user

\* C18: a list request for recipes, tags or ingredients that carries no
\* token is answered 401, the answer carries no row, and the store is as it
\* was.
AnonymousListUnauthorized ==
    [][(last'.op = "list" /\ last'.user = Anonymous) =>
          /\ last'.status = 401
          /\ Returned' = {}
          /\ Store' = Store]_vars

\* C18 witness: the recipe list was asked for without a token while the
\* store held recipes, tags and ingredients.
AnonymousListUnauthorizedWitness ==
    /\ last.op = "list" /\ last.kind = "recipe" /\ last.user = Anonymous
    /\ last.status = 401
    /\ recipes # << >> /\ tags # << >> /\ ingredients # << >>

\* The rows of one owner that carry one name, in either table
SameOwnerName(rows) ==
    {<<i, j>> \in (DOMAIN rows) \X (DOMAIN rows) :
        i # j /\ rows[i].user = rows[j].user /\ rows[i].name = rows[j].name}

\* C21: after any sequence of requests the tags hold at most one row per
\* (owner, name) and so do the ingredients, and no recipe write is answered
\* 500 for an ambiguous match.
OwnerNameIdentifies ==
    /\ SameOwnerName(tags) = {}
    /\ SameOwnerName(ingredients) = {}
    /\ (last.kind = "recipe" /\ last.op \in {"create", "update"}) => last.status # 500

\* C23: a recipe create or update that fails after validation leaves the
\* store as it was.
FailedWriteWritesNothing ==
    [][(last'.kind = "recipe" /\ last'.op \in {"create", "update"}
        /\ last'.status = 500) => Store' = Store]_vars

\* The recipes of the store without their associations to row id of kind
Unlinked(kind, id) ==
    [r \in DOMAIN recipes |->
        IF kind = "tag" THEN [recipes[r] EXCEPT !.tags = @ \ {id}]
        ELSE [recipes[r] EXCEPT !.ingredients = @ \ {id}]]

\* C24: an update through the tag or ingredient endpoint changes at most
\* the name of the addressed row (to the payload's name when it is answered
\* 200) and leaves its id, its owner, the recipes that carry it, every other
\* row and every recipe as they were; a delete removes the addressed row
\* and its associations and nothing else, and deletes no recipe.
AttrWriteFrame ==
    [][(last'.kind \in Kinds /\ last'.op \in {"update", "destroy"}) =>
          LET kind == last'.kind
              id == last'.id
              old == Rows(Store, kind)
              new == IF kind = "tag" THEN tags' ELSE ingredients'
          IN /\ IF kind = "tag" THEN ingredients' = ingredients ELSE tags' = tags
             /\ nextId' = nextId
             /\ last'.status \notin {200, 204} => Store' = Store
             /\ (last'.op = "update" /\ last'.status = 200) =>
                   /\ recipes' = recipes
                   /\ DOMAIN new = DOMAIN old
                   /\ \A i \in DOMAIN old \ {id} : new[i] = old[i]
                   /\ new[id].user = old[id].user
                   /\ new[id].name = IF last'.data.name # None
                                      THEN Get(last'.data.name) ELSE old[id].name
             /\ (last'.op = "destroy" /\ last'.status = 204) =>
                   /\ new = [i \in DOMAIN old \ {id} |-> old[i]]
                   /\ recipes' = Unlinked(kind, id)]_vars

\* C24 witness: a tag that is on a recipe was renamed while the other user
\* has a tag of the new name.
AttrWriteFrameWitness ==
    /\ last.op = "update" /\ last.kind = "tag" /\ last.status = 200
    /\ last.data.name = Some("b") /\ tags[last.id].name = "b"
    /\ \E r \in DOMAIN recipes : last.id \in recipes[r].tags
    /\ \E j \in DOMAIN tags \ {last.id} :
          tags[j].user # last.user /\ tags[j].name = "b"

\* C22: when both workers have finished a create of one user that names one
\* tag, the store holds exactly one tag row of that user and name, both
\* recipes carry it, and both requests were answered 201.
RaceLeavesOneRow ==
    (/\ \A w \in Writers : writers[w].pc \in {"done", "error"}
     /\ writers["w1"].user = writers["w2"].user
     /\ writers["w1"].name = writers["w2"].name) =>
        LET m == Matches(tags, writers["w1"].user, writers["w1"].name)
        IN /\ Cardinality(m) = 1
           /\ \A w \in Writers :
                 /\ writers[w].pc = "done"
                 /\ recipes[writers[w].rid].tags = m

====
